---- MODULE Spec2Model ----
(***************************************************************************)
(* Settings view (debounced auto-save, load on mount, setTheme calls)       *)
(* and WidgetContextMenu (action buttons, outside-click listener) of       *)
(* ClaraVerse, as state machines.  Time is counted in milliseconds and     *)
(* advances in steps of at most Tick, never past the moment a timer is due; *)
(* a timer whose delay has run out fires before the clock advances again.  *)
(***************************************************************************)
EXTENDS Naturals, Sequences, FiniteSets

\* ------------------------------------------------------------------ bounds
MaxEdits == 1          \* user edits of the Settings form in one run
Tick == 2000           \* longest stretch of time one clock step covers, in ms
MaxClicks == 3         \* clicks dispatched to the document in one run

\* ------------------------------------------------------- program constants
DEBOUNCE_MS == 600     \* setTimeout(..., 600)
SUCCESS_MS == 2000     \* setTimeout(() => setSaveStatus('idle'), 2000)

\* ---------------------------------------------------------------- values
NULL == [null |-> TRUE]                 \* null / undefined / absent record

EnvTimezone == "UTC"                    \* Intl...resolvedOptions().timeZone
OpenAIDefaultBaseUrl == "https://api.openai.com/v1"
ThemeModes == {"light", "dark", "system"}
ApiTypes == {"ollama", "openai"}

DefaultPersonalInfo ==
    [name |-> "", email |-> "", avatar_url |-> "",
     timezone |-> EnvTimezone, theme_preference |-> "system"]

DefaultApiConfig ==
    [ollama_base_url |-> "", comfyui_base_url |-> "", openai_api_key |-> "",
     openai_base_url |-> "", api_type |-> "ollama"]

\* { ...prev, k: v }: every key of prev is kept, k is added or overwritten
Spread(prev, k, v) == [f \in (DOMAIN prev) \cup {k} |-> IF f = k THEN v ELSE prev[f]]

\* value={apiConfig.n8n_base_url || ''}: what an input shows for field k
Shown(rec, k) == IF k \in DOMAIN rec THEN rec[k] ELSE ""

\* the text a user can type into each text input / pick in the timezone select
PersonalInfoInputs ==
    [name |-> {"Ada"}, email |-> {"a@b.com"}, avatar_url |-> {}, timezone |-> {}]

ApiConfigInputs ==
    [ollama_base_url |-> {"http://localhost:11434"},
     openai_base_url |-> {},
     openai_api_key |-> {},
     comfyui_base_url |-> {},
     n8n_base_url |-> {},
     n8n_api_key |-> {}]

\* conditional rendering of the input groups
Visible(ac, k) ==
    CASE k = "ollama_base_url" -> ac.api_type = "ollama"
      [] k \in {"openai_base_url", "openai_api_key"} -> ac.api_type = "openai"
      [] OTHER -> TRUE

\* records the persistence collaborator may hold when the view mounts
SavedPersonalInfos ==
    {NULL,
     [name |-> "Ada", email |-> "a@b.com", avatar_url |-> "",
      timezone |-> "Asia/Tokyo", theme_preference |-> "dark"]}

SavedApiConfigs ==
    {NULL,
     [ollama_base_url |-> "http://localhost:11434", comfyui_base_url |-> "",
      openai_api_key |-> "sk-1", openai_base_url |-> "", api_type |-> "openai",
      n8n_base_url |-> "http://localhost:5678"]}

\* savedApiConfig.openai_base_url || 'https://api.openai.com/v1'
LoadedApiConfig(saved) ==
    Spread(saved, "openai_base_url",
           IF Shown(saved, "openai_base_url") # "" THEN saved.openai_base_url
           ELSE OpenAIDefaultBaseUrl)

Min(a, b) == IF a < b THEN a ELSE b
Minus(a, b) == IF a > b THEN a - b ELSE 0

VARIABLES
    mounted,        \* the Settings view is mounted
    personalInfo,   \* useState<PersonalInfo>
    apiConfig,      \* useState<APIConfig>
    isSaving,       \* useState(false)
    saveStatus,     \* useState<'idle' | 'success' | 'error'>
    saveTimeout,    \* useRef: id of the last scheduled debounce timer, 0 = null
    timers,         \* pending debounce timers: [id, remaining, pi, ac]
    resets,         \* pending setSaveStatus('idle') timers: remaining ms each
    cycles,         \* save cycles awaiting a write: [pi, ac, pc, calls]
    db,             \* persistence collaborator: [pi, ac]
    load,           \* loadSettings: [pc, pi]
    themeCalls,     \* the modes passed to setTheme so far, in call order
    nEdits,         \* user edits so far
    nCycles,        \* save cycles started so far
    sinceChange,    \* ms since the auto-save effect last ran (capped)
    sinceSuccess,   \* ms since saveStatus last became 'success' (capped)
    menu,           \* WidgetContextMenu: [mounted, props]
    docListeners,   \* handleClickOutside listeners registered on document
    menuCalls,      \* how often each menu callback has been invoked
    nClicks,        \* clicks dispatched so far
    lastClick       \* the last click: [target, mounted], mounted as it was dispatched

settingsVars == <<mounted, personalInfo, apiConfig, isSaving, saveStatus, saveTimeout,
                  timers, resets, cycles, db, load, themeCalls, nEdits, nCycles,
                  sinceChange, sinceSuccess>>
menuVars == <<menu, docListeners, menuCalls, nClicks, lastClick>>
vars == <<settingsVars, menuVars>>

\* ------------------------------------------------------------ debounce
\* clearTimeout(id): the pending timer with that id, if any, is dropped
ClearTimeoutStale(ts, id) == ts
ClearTimeout(ts, id) == {t \in ts : t.id # id}

\* ids are fresh: never one of a pending timer, never the one the ref holds
NewTimerId(ts) ==
    CHOOSE i \in 1..(Cardinality(ts) + 2) :
        /\ i # saveTimeout
        /\ \A t \in ts : t.id # i
        /\ \A j \in 1..(Cardinality(ts) + 2) :
              (j # saveTimeout /\ \A t \in ts : t.id # j) => i <= j

\* dependency array [personalInfo, apiConfig]: a setter call makes a new object
DepsChangedMissingApiConfig(setPI, setAC) == setPI
DepsChanged(setPI, setAC) == setPI \/ setAC

\* the auto-save effect after a commit of (pi, ac): cleanup of the previous run,
\* then clearTimeout, setIsSaving(true), setSaveStatus('idle'), setTimeout(.., 600)
AutoSaveEffect(pi, ac) ==
    LET afterCleanup == IF saveTimeout # 0 THEN ClearTimeout(timers, saveTimeout) ELSE timers
        cleared == IF saveTimeout # 0 THEN ClearTimeout(afterCleanup, saveTimeout)
                   ELSE afterCleanup
        id == NewTimerId(cleared)
    IN  /\ timers' = cleared \cup {[id |-> id, remaining |-> DEBOUNCE_MS, pi |-> pi, ac |-> ac]}
        /\ saveTimeout' = id
        /\ isSaving' = TRUE
        /\ saveStatus' = "idle"
        /\ sinceChange' = 0
        /\ sinceSuccess' = 0

\* a render committing (pi, ac) after setPersonalInfo and/or setApiConfig
Commit(pi, ac, setPI, setAC) ==
    /\ personalInfo' = pi
    /\ apiConfig' = ac
    /\ IF DepsChanged(setPI, setAC)
       THEN AutoSaveEffect(pi, ac)
       ELSE UNCHANGED <<timers, saveTimeout, isSaving, saveStatus, sinceChange, sinceSuccess>>

\* ------------------------------------------------------------ initial state
\* after the first render and both mount effects: loadSettings has called
\* getPersonalInfo, the auto-save effect has scheduled a save of the defaults
SettingsInit ==
    /\ mounted = TRUE
    /\ personalInfo = DefaultPersonalInfo
    /\ apiConfig = DefaultApiConfig
    /\ isSaving = TRUE
    /\ saveStatus = "idle"
    /\ saveTimeout = 1
    /\ timers = {[id |-> 1, remaining |-> DEBOUNCE_MS,
                  pi |-> DefaultPersonalInfo, ac |-> DefaultApiConfig]}
    /\ resets = <<>>
    /\ cycles = <<>>
    /\ \E p \in SavedPersonalInfos, a \in SavedApiConfigs : db = [pi |-> p, ac |-> a]
    /\ load = [pc |-> "getPersonalInfo", pi |-> NULL]
    /\ themeCalls = <<>>
    /\ nEdits = 0
    /\ nCycles = 0
    /\ sinceChange = 0
    /\ sinceSuccess = 0

\* ------------------------------------------------------------ loadSettings
\* await db.getPersonalInfo() resolves; db.getAPIConfig() is called
GetPersonalInfoResolved ==
    /\ load.pc = "getPersonalInfo"
    /\ load' = [pc |-> "getAPIConfig", pi |-> db.pi]
    /\ UNCHANGED <<mounted, personalInfo, apiConfig, isSaving, saveStatus, saveTimeout,
                   timers, resets, cycles, db, themeCalls, nEdits, nCycles, sinceChange,
                   sinceSuccess>>

\* if (savedPersonalInfo) { ...; setTheme(savedPersonalInfo.theme_preference) }
LoadThemeCallsDefaulting(saved) ==
    <<IF saved # NULL THEN saved.theme_preference ELSE "system">>
LoadThemeCalls(saved) == IF saved # NULL THEN <<saved.theme_preference>> ELSE <<>>

\* await db.getAPIConfig() resolves; the rest of loadSettings runs.  The state
\* setters do nothing once the view is unmounted; setTheme is called all the same.
GetAPIConfigResolved ==
    /\ load.pc = "getAPIConfig"
    /\ load' = [pc |-> "done", pi |-> NULL]
    /\ LET savedPersonalInfo == load.pi
           savedApiConfig == db.ac
           hasPI == savedPersonalInfo # NULL
           hasAC == savedApiConfig # NULL
       IN  /\ themeCalls' = themeCalls \o LoadThemeCalls(savedPersonalInfo)
           /\ IF mounted
              THEN Commit(IF hasPI THEN savedPersonalInfo ELSE personalInfo,
                          IF hasAC THEN LoadedApiConfig(savedApiConfig) ELSE apiConfig,
                          hasPI, hasAC)
              ELSE UNCHANGED <<personalInfo, apiConfig, timers, saveTimeout, isSaving,
                               saveStatus, sinceChange, sinceSuccess>>
    /\ UNCHANGED <<mounted, resets, cycles, db, nEdits, nCycles>>

\* ------------------------------------------------------------ user edits
\* onChange of the name / email / avatar_url inputs and the timezone select
SetPersonalInfoField(k, v) ==
    /\ mounted
    /\ nEdits < MaxEdits
    /\ v # personalInfo[k]
    /\ Commit(Spread(personalInfo, k, v), apiConfig, TRUE, FALSE)
    /\ nEdits' = nEdits + 1
    /\ nCycles' = nCycles
    /\ UNCHANGED <<mounted, resets, cycles, db, load, themeCalls>>

\* handleThemeChange: setPersonalInfo(...theme_preference), then setTheme(value)
ThemeChangeNoSetTheme(value) ==
    /\ mounted
    /\ nEdits < MaxEdits
    /\ value # personalInfo.theme_preference
    /\ Commit(Spread(personalInfo, "theme_preference", value), apiConfig, TRUE, FALSE)
    /\ nEdits' = nEdits + 1
    /\ nCycles' = nCycles
    /\ UNCHANGED <<mounted, resets, cycles, db, load, themeCalls>>

handleThemeChange(value) ==
    /\ mounted
    /\ nEdits < MaxEdits
    /\ value # personalInfo.theme_preference
    /\ Commit(Spread(personalInfo, "theme_preference", value), apiConfig, TRUE, FALSE)
    /\ themeCalls' = Append(themeCalls, value)
    /\ nEdits' = nEdits + 1
    /\ nCycles' = nCycles
    /\ UNCHANGED <<mounted, resets, cycles, db, load>>

\* what a click on an API type button stores
ApiTypeClickClearsHidden(prev, type) ==
    Spread(Spread(Spread(Spread(prev, "api_type", type),
                         "ollama_base_url", IF type = "ollama" THEN prev.ollama_base_url ELSE ""),
                  "openai_base_url", IF type = "openai" THEN prev.openai_base_url ELSE ""),
           "openai_api_key", IF type = "openai" THEN prev.openai_api_key ELSE "")
ApiTypeClick(prev, type) == Spread(prev, "api_type", type)

\* onClick of the Ollama / OpenAI-like buttons (also when already selected)
SetApiType(type) ==
    /\ mounted
    /\ nEdits < MaxEdits
    /\ Commit(personalInfo, ApiTypeClick(apiConfig, type), FALSE, TRUE)
    /\ nEdits' = nEdits + 1
    /\ nCycles' = nCycles
    /\ UNCHANGED <<mounted, resets, cycles, db, load, themeCalls>>

\* onChange of a rendered APIConfig text input
SetApiConfigField(k, v) ==
    /\ mounted
    /\ nEdits < MaxEdits
    /\ Visible(apiConfig, k)
    /\ v # Shown(apiConfig, k)
    /\ Commit(personalInfo, Spread(apiConfig, k, v), FALSE, TRUE)
    /\ nEdits' = nEdits + 1
    /\ nCycles' = nCycles
    /\ UNCHANGED <<mounted, resets, cycles, db, load, themeCalls>>

\* ------------------------------------------------------------ save cycle
RemoveAt(seq, i) == [j \in 1..(Len(seq) - 1) |-> IF j < i THEN seq[j] ELSE seq[j + 1]]

\* the persistence collaborator after a write of rec to slot k that succeeded
DbStore(k, rec) == [db EXCEPT ![k] = rec]

\* a call of the persistence collaborator
Call(op, arg) == [op |-> op, arg |-> arg]

\* await db.updatePersonalInfo(personalInfo), on the closure of timer t
FirstWrite(t) == Call("updatePersonalInfo", t.pi)

\* await db.updateAPIConfig(apiConfig), on the closure of cycle c
SecondWriteRepeatsFirst(c) == Call("updatePersonalInfo", c.pi)
SecondWrite(c) == Call("updateAPIConfig", c.ac)

\* the debounce timer t expires: the async callback starts and calls
\* db.updatePersonalInfo(personalInfo) with the records its closure captured
SaveTimeoutFire(t) ==
    /\ t \in timers
    /\ t.remaining = 0
    /\ timers' = timers \ {t}
    /\ cycles' = Append(cycles, [pi |-> t.pi, ac |-> t.ac, pc |-> "updatePersonalInfo",
                                 calls |-> <<FirstWrite(t)>>])
    /\ nCycles' = nCycles + 1
    /\ UNCHANGED <<mounted, personalInfo, apiConfig, isSaving, saveStatus, saveTimeout,
                   resets, db, load, themeCalls, nEdits, sinceChange, sinceSuccess>>

\* await db.updatePersonalInfo(...) resolves; db.updateAPIConfig(apiConfig) is called
UpdatePersonalInfoResolved(i) ==
    /\ i \in 1..Len(cycles)
    /\ cycles[i].pc = "updatePersonalInfo"
    /\ db' = DbStore("pi", cycles[i].calls[1].arg)
    /\ cycles' = [cycles EXCEPT ![i].pc = "updateAPIConfig",
                                ![i].calls = Append(@, SecondWrite(cycles[i]))]
    /\ UNCHANGED <<mounted, personalInfo, apiConfig, isSaving, saveStatus, saveTimeout,
                   timers, resets, load, themeCalls, nEdits, nCycles, sinceChange, sinceSuccess>>

\* what the catch block of a failed save cycle leaves in (personalInfo, apiConfig)
AfterCatchRollback == <<DefaultPersonalInfo, DefaultApiConfig>>
AfterCatch == <<personalInfo, apiConfig>>

\* either write rejects: catch { setSaveStatus('error') } finally { setIsSaving(false) }
SaveRejected(i) ==
    /\ i \in 1..Len(cycles)
    /\ cycles' = RemoveAt(cycles, i)
    /\ saveStatus' = IF mounted THEN "error" ELSE saveStatus
    /\ isSaving' = IF mounted THEN FALSE ELSE isSaving
    /\ personalInfo' = AfterCatch[1]
    /\ apiConfig' = AfterCatch[2]
    /\ sinceSuccess' = 0
    /\ UNCHANGED <<mounted, saveTimeout, timers, resets, db, load, themeCalls, nEdits,
                   nCycles,
                   sinceChange>>

\* await db.updateAPIConfig(...) resolves: setSaveStatus('success'),
\* setTimeout(() => setSaveStatus('idle'), 2000), finally setIsSaving(false)
UpdateAPIConfigResolved(i) ==
    /\ i \in 1..Len(cycles)
    /\ cycles[i].pc = "updateAPIConfig"
    /\ db' = DbStore("ac", cycles[i].calls[2].arg)
    /\ cycles' = RemoveAt(cycles, i)
    /\ saveStatus' = IF mounted THEN "success" ELSE saveStatus
    /\ isSaving' = IF mounted THEN FALSE ELSE isSaving
    /\ resets' = Append(resets, SUCCESS_MS)
    /\ sinceSuccess' = 0
    /\ UNCHANGED <<mounted, personalInfo, apiConfig, saveTimeout, timers, load, themeCalls,
                   nEdits, nCycles, sinceChange>>

\* the 2000 ms timer of an earlier success expires: setSaveStatus('idle')
ResetStatusFire ==
    /\ resets # <<>>
    /\ Head(resets) = 0
    /\ resets' = Tail(resets)
    /\ saveStatus' = IF mounted THEN "idle" ELSE saveStatus
    /\ sinceSuccess' = 0
    /\ UNCHANGED <<mounted, personalInfo, apiConfig, isSaving, saveTimeout, timers,
                   cycles, db, load, themeCalls, nEdits, nCycles, sinceChange>>

\* the view unmounts: the effect's cleanup clears the timer the ref holds
UnmountKeepsTimer ==
    /\ mounted
    /\ mounted' = FALSE
    /\ UNCHANGED <<personalInfo, apiConfig, isSaving, saveStatus, saveTimeout, timers, resets,
                   cycles, db, load, themeCalls, nEdits, nCycles, sinceChange, sinceSuccess>>

Unmount ==
    /\ mounted
    /\ mounted' = FALSE
    /\ timers' = IF saveTimeout # 0 THEN ClearTimeout(timers, saveTimeout) ELSE timers
    /\ UNCHANGED <<personalInfo, apiConfig, isSaving, saveStatus, saveTimeout, resets,
                   cycles, db, load, themeCalls, nEdits, nCycles, sinceChange, sinceSuccess>>

\* the delays still to run of all pending timers (debounce and status reset)
Remainings == {t.remaining : t \in timers} \cup {resets[i] : i \in 1..Len(resets)}

MinOf(S) == CHOOSE m \in S : \A x \in S : m <= x

\* how far the clock advances in one step: Tick ms, or less when a timer is
\* due sooner, so that every timer fires exactly when its delay has run out
Elapse == IF Remainings = {} THEN Tick ELSE Min(Tick, MinOf(Remainings))

\* time passes; no timer is overdue when the clock advances
TimePasses ==
    /\ \A t \in timers : t.remaining > 0
    /\ \A i \in 1..Len(resets) : resets[i] > 0
    /\ timers' = {[t EXCEPT !.remaining = Minus(t.remaining, Elapse)] : t \in timers}
    /\ resets' = [i \in 1..Len(resets) |-> Minus(resets[i], Elapse)]
    /\ sinceChange' = Min(sinceChange + Elapse, DEBOUNCE_MS)
    /\ sinceSuccess' = IF saveStatus = "success" THEN Min(sinceSuccess + Elapse, SUCCESS_MS)
                       ELSE 0
    /\ UNCHANGED <<mounted, personalInfo, apiConfig, isSaving, saveStatus, saveTimeout,
                   cycles, db, load, themeCalls, nEdits, nCycles>>

\* ------------------------------------------------------------ context menu
Callbacks == {"onClose", "onAddWidget", "onRemoveWidget", "onRearrangeWidgets"}
Buttons == {"addButton", "rearrangeButton", "removeButton"}
Targets == Buttons \cup {"menu", "otherMenu", "outside"}

\* props: which optional callbacks the caller supplies, and showRemove
MenuProps ==
    [onAddWidget : BOOLEAN, onRemoveWidget : BOOLEAN, onRearrangeWidgets : BOOLEAN,
     showRemove : BOOLEAN]

\* the elements a click can land on: the conditionally rendered buttons (or
\* their icons), the menu's own div, an element inside another element of class
\* context-menu ("otherMenu", not in this menu's subtree), and an element with
\* no ancestor of that class ("outside")
Rendered(m, target) ==
    CASE target = "addButton" -> m.mounted /\ m.props.onAddWidget
      [] target = "rearrangeButton" -> m.mounted /\ m.props.onRearrangeWidgets
      [] target = "removeButton" ->
            m.mounted /\ m.props.showRemove /\ m.props.onRemoveWidget
      [] target = "menu" -> m.mounted
      [] OTHER -> TRUE

\* target.closest('.context-menu'): non-null when the target or any ancestor
\* has the class, whichever element that is: the menu's div for its buttons
\* and itself, the other element for a target inside it
ClosestNeverMatches(target) == FALSE
ClosestContextMenu(target) == target # "outside"

\* the onClick of each button, after e.stopPropagation()
ButtonOnClick(target) ==
    CASE target = "addButton" -> <<"onAddWidget", "onClose">>
      [] target = "rearrangeButton" -> <<"onRearrangeWidgets", "onClose">>
      [] target = "removeButton" -> <<"onRemoveWidget", "onClose">>
      [] OTHER -> <<>>

handleClickOutside(target) == IF ~ClosestContextMenu(target) THEN <<"onClose">> ELSE <<>>

\* the callbacks one click invokes, in order.  A button's onClick runs first.
\* The document listener runs when one is registered and the event gets to it:
\* always for a target without onClick; after stopPropagation only when React's
\* own listener sits on the document too (legacy delegation) and the parent has
\* not unmounted the menu inside onClose.
Fired(listeners, target, legacy, closedSync) ==
    ButtonOnClick(target) \o
    (IF listeners > 0 /\ (target \notin Buttons \/ (legacy /\ ~closedSync))
     THEN handleClickOutside(target) ELSE <<>>)

Count(seq, c) == Cardinality({i \in 1..Len(seq) : seq[i] = c})

\* the parent mounts the menu: the effect registers handleClickOutside
Open(props) ==
    /\ ~menu.mounted
    /\ menu' = [mounted |-> TRUE, props |-> props]
    /\ docListeners' = docListeners + 1
    /\ UNCHANGED <<menuCalls, nClicks, lastClick>>

\* removeEventListener in the effect's cleanup
ListenersAfterCleanup == docListeners - 1

\* the parent unmounts the menu: the effect's cleanup unregisters the listener
Teardown ==
    /\ menu.mounted
    /\ menu' = [menu EXCEPT !.mounted = FALSE]
    /\ docListeners' = ListenersAfterCleanup
    /\ UNCHANGED <<menuCalls, nClicks, lastClick>>

\* one click on target, dispatched through the button's onClick and the
\* document listener
Click(target, legacy, closedSync) ==
    /\ nClicks < MaxClicks
    /\ Rendered(menu, target)
    /\ closedSync => target \in Buttons
    /\ LET fired == Fired(docListeners, target, legacy, closedSync)
       IN  menuCalls' = [c \in Callbacks |-> menuCalls[c] + Count(fired, c)]
    /\ nClicks' = nClicks + 1
    /\ lastClick' = [target |-> target, mounted |-> menu.mounted]
    /\ IF closedSync
       THEN /\ menu' = [menu EXCEPT !.mounted = FALSE]
            /\ docListeners' = ListenersAfterCleanup
       ELSE UNCHANGED <<menu, docListeners>>

MenuInit ==
    /\ menu = [mounted |-> FALSE, props |-> [onAddWidget |-> FALSE, onRemoveWidget |-> FALSE,
                                            onRearrangeWidgets |-> FALSE, showRemove |-> FALSE]]
    /\ docListeners = 0
    /\ menuCalls = [c \in Callbacks |-> 0]
    /\ nClicks = 0
    /\ lastClick = [target |-> "none", mounted |-> FALSE]

Init == SettingsInit /\ MenuInit

Next ==
    \/ GetPersonalInfoResolved /\ UNCHANGED menuVars
    \/ GetAPIConfigResolved /\ UNCHANGED menuVars
    \/ \E k \in DOMAIN PersonalInfoInputs : \E v \in PersonalInfoInputs[k] :
          SetPersonalInfoField(k, v) /\ UNCHANGED menuVars
    \/ \E value \in ThemeModes : handleThemeChange(value) /\ UNCHANGED menuVars
    \/ \E type \in ApiTypes : SetApiType(type) /\ UNCHANGED menuVars
    \/ \E k \in DOMAIN ApiConfigInputs : \E v \in ApiConfigInputs[k] :
          SetApiConfigField(k, v) /\ UNCHANGED menuVars
    \/ \E t \in timers : SaveTimeoutFire(t) /\ UNCHANGED menuVars
    \/ \E i \in 1..Len(cycles) : UpdatePersonalInfoResolved(i) /\ UNCHANGED menuVars
    \/ \E i \in 1..Len(cycles) : SaveRejected(i) /\ UNCHANGED menuVars
    \/ \E i \in 1..Len(cycles) : UpdateAPIConfigResolved(i) /\ UNCHANGED menuVars
    \/ ResetStatusFire /\ UNCHANGED menuVars
    \/ TimePasses /\ UNCHANGED menuVars

Spec == Init /\ [][Next]_vars

\* the same with the view allowed to unmount at any moment
NextUnmount == Next \/ (Unmount /\ UNCHANGED menuVars)

SpecUnmount == Init /\ [][NextUnmount]_vars

\* the same with every persistence write resolving (no write rejects)
NextWritesSucceed ==
    \/ GetPersonalInfoResolved /\ UNCHANGED menuVars
    \/ GetAPIConfigResolved /\ UNCHANGED menuVars
    \/ \E k \in DOMAIN PersonalInfoInputs : \E v \in PersonalInfoInputs[k] :
          SetPersonalInfoField(k, v) /\ UNCHANGED menuVars
    \/ \E value \in ThemeModes : handleThemeChange(value) /\ UNCHANGED menuVars
    \/ \E type \in ApiTypes : SetApiType(type) /\ UNCHANGED menuVars
    \/ \E k \in DOMAIN ApiConfigInputs : \E v \in ApiConfigInputs[k] :
          SetApiConfigField(k, v) /\ UNCHANGED menuVars
    \/ \E t \in timers : SaveTimeoutFire(t) /\ UNCHANGED menuVars
    \/ \E i \in 1..Len(cycles) : UpdatePersonalInfoResolved(i) /\ UNCHANGED menuVars
    \/ \E i \in 1..Len(cycles) : UpdateAPIConfigResolved(i) /\ UNCHANGED menuVars
    \/ ResetStatusFire /\ UNCHANGED menuVars
    \/ TimePasses /\ UNCHANGED menuVars

SpecWritesSucceed == Init /\ [][NextWritesSucceed]_vars

\* the context menu on its own
MenuSpecInit == Init /\ db = [pi |-> NULL, ac |-> NULL]

MenuSpecNext ==
    \/ \E props \in MenuProps : Open(props) /\ UNCHANGED settingsVars
    \/ Teardown /\ UNCHANGED settingsVars
    \/ \E target \in Targets, legacy \in BOOLEAN, closedSync \in BOOLEAN :
          Click(target, legacy, closedSync) /\ UNCHANGED settingsVars

MenuSpec == MenuSpecInit /\ [][MenuSpecNext]_vars
\* ================================================================ claims
\* the auto-save effect ran in this step: the ref holds a fresh timer id
EffectRan == saveTimeout' # saveTimeout

\* a save cycle started in this step; NewCycle is that cycle
CycleStarted == nCycles' = nCycles + 1
NewCycle == cycles'[Len(cycles')]

\* a user edit was made in this step
Edited == nEdits' = nEdits + 1

\* loadSettings ran to its end in this step
LoadFinished == load.pc = "getAPIConfig" /\ load'.pc = "done"

\* C1: changes that follow each other within 600 ms issue no write for an
\* intermediate snapshot: a pending debounce timer always carries the records
\* as they are now, and a save cycle starts only after 600 ms without a
\* change, with those records, leaving no other timer of the burst behind.
C1_OnlyFinalSnapshotSaved ==
    [][/\ \A t \in timers' : t.pi = personalInfo' /\ t.ac = apiConfig'
       /\ CycleStarted =>
             /\ sinceChange >= DEBOUNCE_MS
             /\ NewCycle.pi = personalInfo /\ NewCycle.ac = apiConfig
             /\ NewCycle.calls = <<Call("updatePersonalInfo", personalInfo)>>
             /\ timers' = {}]_vars

\* C1 witness: after a burst (mount, then a user edit of the name) exactly one
\* save cycle was started, and it carries the records after the last change.
C1_Witness ==
    /\ nEdits = 1 /\ nCycles = 1 /\ Len(cycles) = 1
    /\ personalInfo.name = "Ada"
    /\ cycles[1].pi = personalInfo /\ cycles[1].ac = apiConfig

\* C2 as stated: every save cycle calls updatePersonalInfo and updateAPIConfig,
\* so a cycle never ends before its updateAPIConfig call was made.
C2_BothRecordsAlwaysWritten ==
    [][\A i \in 1..Len(cycles) :
          cycles' = RemoveAt(cycles, i) => cycles[i].pc = "updateAPIConfig"]_vars

\* C2 amended: 600 ms after the last change the pending timer is due (and
\* the clock does not advance past a due timer); the cycle it starts calls
\* updatePersonalInfo with the in-memory personalInfo, and, once that write
\* has resolved, updateAPIConfig with the apiConfig of the same snapshot; a
\* cycle whose updatePersonalInfo rejects ends without an updateAPIConfig call.
C2_SaveAfterQuiescence ==
    [][/\ \A t \in timers' : mounted' => t.remaining + sinceChange' = DEBOUNCE_MS
       /\ CycleStarted =>
             /\ NewCycle.pc = "updatePersonalInfo"
             /\ NewCycle.calls = <<Call("updatePersonalInfo", personalInfo)>>
             /\ NewCycle.ac = apiConfig
       /\ \A i \in 1..Len(cycles') :
             cycles'[i].pc = "updateAPIConfig" =>
                cycles'[i].calls = <<Call("updatePersonalInfo", cycles'[i].pi),
                                     Call("updateAPIConfig", cycles'[i].ac)>>
       /\ \A i \in 1..Len(cycles) :
             (cycles' = RemoveAt(cycles, i) /\ db' # db) =>
                /\ cycles[i].pc = "updateAPIConfig"
                /\ db' = [db EXCEPT !.ac = cycles[i].ac]]_vars

\* C2 witness: a cycle has written personalInfo and has called updateAPIConfig
\* with the records of an edit that was followed by 600 ms of quiet.
C2_Witness ==
    /\ nEdits = 1
    /\ \E i \in 1..Len(cycles) :
          /\ cycles[i].pc = "updateAPIConfig"
          /\ cycles[i].pi = personalInfo /\ cycles[i].ac = apiConfig
          /\ db.pi = personalInfo
    /\ sinceChange >= DEBOUNCE_MS

\* C3: at most one debounce timer is pending, and it is the one the ref holds.
C3_AtMostOneTimer ==
    /\ Cardinality(timers) <= 1
    /\ \A t \in timers : t.id = saveTimeout

\* C3 witness: the timer scheduled at mount was replaced before it expired (no
\* save cycle has started) and the replacement is the only one pending.
C3_Witness ==
    /\ nCycles = 0 /\ nEdits = 1
    /\ saveTimeout # 1
    /\ Cardinality(timers) = 1

\* C4: saveStatus, once 'success', does not return to 'idle' before 2 s have
\* passed since that success, unless a change to a record occurs.
C4_SuccessShownTwoSeconds ==
    [][(mounted /\ saveStatus = "success" /\ saveStatus' = "idle" /\ ~EffectRan)
          => sinceSuccess >= SUCCESS_MS]_vars

\* C5: when a write rejects (a cycle ends and schedules no 'success' reset),
\* saveStatus becomes 'error', the records in memory stay as they are, nothing
\* is stored, and no timer, write or cycle is started for that snapshot; a
\* cycle whose first write rejected never calls updateAPIConfig.
C5_FailureNoRetryNoRollback ==
    [][\A i \in 1..Len(cycles) :
          (cycles' = RemoveAt(cycles, i) /\ resets' = resets) =>
             /\ mounted => saveStatus' = "error"
             /\ personalInfo' = personalInfo /\ apiConfig' = apiConfig
             /\ db' = db
             /\ timers' = timers /\ saveTimeout' = saveTimeout
             /\ nCycles' = nCycles
             /\ cycles[i].pc = "updatePersonalInfo" => Len(cycles[i].calls) = 1]_vars

\* C5 witness: a save of an edited record failed: status 'error', the edit is
\* still in memory, nothing was stored and nothing is pending or in flight.
C5_Witness ==
    /\ saveStatus = "error"
    /\ nEdits = 1 /\ nCycles = 1
    /\ personalInfo.name = "Ada"
    /\ db = [pi |-> NULL, ac |-> NULL]
    /\ timers = {} /\ cycles = <<>>

\* C6: when loadSettings finds PersonalInfo (resp. APIConfig) absent, the record
\* in memory is left as it is (the built-in defaults when nothing was edited),
\* setTheme is not called for an absent PersonalInfo, and no 'error' is raised.
C6_AbsentKeepsDefaults ==
    [][LoadFinished =>
          /\ load.pi = NULL =>
                /\ personalInfo' = personalInfo
                /\ nEdits = 0 => personalInfo' = DefaultPersonalInfo
                /\ themeCalls' = themeCalls
          /\ db.ac = NULL =>
                /\ apiConfig' = apiConfig
                /\ nEdits = 0 => apiConfig' = DefaultApiConfig
          /\ saveStatus' = "error" => saveStatus = "error"]_vars

\* C6 witness: loadSettings has finished on an empty store: defaults in
\* memory, setTheme never called, no error.
C6_Witness ==
    /\ load.pc = "done"
    /\ db = [pi |-> NULL, ac |-> NULL]
    /\ personalInfo = DefaultPersonalInfo /\ apiConfig = DefaultApiConfig
    /\ themeCalls = <<>>
    /\ saveStatus # "error"

\* C7: a user toggle of api_type changes the api_type field alone, and the
\* snapshot of the save it schedules holds every other field's value.
C7_ToggleKeepsHiddenFields ==
    [][(Edited /\ apiConfig'.api_type # apiConfig.api_type) =>
          /\ DOMAIN apiConfig' = DOMAIN apiConfig
          /\ \A f \in DOMAIN apiConfig : f # "api_type" => apiConfig'[f] = apiConfig[f]
          /\ timers' # {}
          /\ \A t \in timers' : t.ac = apiConfig']_vars

\* C7 witness: the loaded config (type openai, with an Ollama URL and an API
\* key) was toggled to ollama; the key, no longer shown, is in memory and in
\* the snapshot of the pending save.
C7_Witness ==
    /\ nEdits = 1
    /\ apiConfig.api_type = "ollama"
    /\ apiConfig.openai_api_key = "sk-1"
    /\ apiConfig.openai_base_url = OpenAIDefaultBaseUrl
    /\ \E t \in timers : t.ac = apiConfig

\* C10: a user theme change calls setTheme with the chosen mode in the step
\* that updates theme_preference, while the save it schedules has its full
\* 600 ms to run; loadSettings calls setTheme with a present record's
\* theme_preference; no other step (timer, write result, reset) calls it.
C10_ThemeAppliedImmediately ==
    [][/\ (Edited /\ personalInfo'.theme_preference # personalInfo.theme_preference) =>
             /\ themeCalls' = Append(themeCalls, personalInfo'.theme_preference)
             /\ \A t \in timers' : t.remaining = DEBOUNCE_MS
             /\ nCycles' = nCycles
       /\ (LoadFinished /\ load.pi # NULL) =>
             themeCalls' = Append(themeCalls, load.pi.theme_preference)
       /\ (mounted /\ themeCalls' # <<>>) =>
             themeCalls'[Len(themeCalls')] = personalInfo'.theme_preference
       /\ themeCalls' # themeCalls =>
             \/ Edited /\ personalInfo'.theme_preference # personalInfo.theme_preference
             \/ LoadFinished /\ load.pi # NULL]_vars

\* C10 witness: setTheme('light') was called by a user change whose save is
\* still waiting for its timer.
C10_Witness ==
    /\ nEdits = 1
    /\ themeCalls # <<>>
    /\ themeCalls[Len(themeCalls)] = "light"
    /\ \E t \in timers : t.pi.theme_preference = "light" /\ t.remaining > 0

\* ---------------------------------------------------------------- menu claims
Bump(calls, c) == [calls EXCEPT ![c] = @ + 1]

ClickedOn(target) == nClicks' = nClicks + 1 /\ lastClick'.target = target

\* C8: a click on a rendered action button invokes that button's callback
\* once and onClose once, and nothing else.
C8_ButtonFiresOnceAndClosesOnce ==
    [][/\ ClickedOn("addButton") =>
             menuCalls' = Bump(Bump(menuCalls, "onAddWidget"), "onClose")
       /\ ClickedOn("rearrangeButton") =>
             menuCalls' = Bump(Bump(menuCalls, "onRearrangeWidgets"), "onClose")
       /\ ClickedOn("removeButton") =>
             menuCalls' = Bump(Bump(menuCalls, "onRemoveWidget"), "onClose")]_vars

\* C8 witness: the remove button was clicked: one onRemoveWidget, one onClose.
C8_Witness ==
    /\ lastClick.target = "removeButton"
    /\ nClicks = 1
    /\ menuCalls = [c \in Callbacks |->
                      IF c \in {"onRemoveWidget", "onClose"} THEN 1 ELSE 0]

\* the targets that are not in the menu's own DOM subtree
OutsideSubtree == {"otherMenu", "outside"}

\* C9: while the menu is mounted a click on any target outside its own DOM
\* subtree invokes onClose alone; a click on the menu but on no button invokes
\* nothing; after teardown no listener is registered and a click invokes
\* nothing.
C9_OutsideClickClosesOnly ==
    [][/\ \A target \in OutsideSubtree :
             (ClickedOn(target) /\ menu.mounted) => menuCalls' = Bump(menuCalls, "onClose")
       /\ ClickedOn("menu") => menuCalls' = menuCalls
       /\ (nClicks' = nClicks + 1 /\ ~menu.mounted) => menuCalls' = menuCalls
       /\ docListeners' = IF menu'.mounted THEN 1 ELSE 0]_vars

\* ---------------------------------------------------------------- mount, overlap, unmount
\* C11: while the persistence collaborator holds saved records (neither absent
\* nor the built-in defaults) and the user has made no edit, no save cycle is
\* started with the default records of the mount render, and no write replaces
\* a saved record by the defaults, however long loadSettings takes.
C11_MountKeepsSavedRecords ==
    [][(/\ nEdits' = 0
        /\ db.pi \notin {NULL, DefaultPersonalInfo}
        /\ db.ac \notin {NULL, DefaultApiConfig}) =>
          /\ CycleStarted =>
                NewCycle.pi # DefaultPersonalInfo /\ NewCycle.ac # DefaultApiConfig
          /\ db'.pi # DefaultPersonalInfo
          /\ db'.ac # DefaultApiConfig]_vars

\* C12: once loadSettings is done, no debounce timer is pending and no save
\* cycle is in flight (every write issued has resolved), the persisted
\* PersonalInfo and APIConfig equal the records in memory, also when the writes
\* of two overlapping cycles resolved in another order than they were issued.
C12_PersistedEqualsInMemory ==
    (mounted /\ load.pc = "done" /\ timers = {} /\ cycles = <<>>) =>
        db = [pi |-> personalInfo, ac |-> apiConfig]

\* the view unmounted in this step
Unmounted == mounted /\ ~mounted'

\* C13: an unmount cancels the pending debounce timer without starting a
\* save cycle or writing anything; once unmounted no timer is pending and no
\* save cycle is started, so the only writes made after unmount are those of
\* cycles that were in flight before it, never one of the cancelled snapshot.
C13_UnmountCancelsPendingSave ==
    [][/\ Unmounted =>
             /\ timers' = {}
             /\ cycles' = cycles /\ nCycles' = nCycles
             /\ db' = db
       /\ ~mounted =>
             /\ timers' = {}
             /\ nCycles' = nCycles
             /\ Len(cycles') <= Len(cycles)
             /\ db' # db =>
                   \E i \in 1..Len(cycles) :
                      \/ db' = [db EXCEPT !.pi = cycles[i].pi]
                      \/ db' = [db EXCEPT !.ac = cycles[i].ac]]_vars

\* C13 witness: the view was unmounted less than 600 ms after the user typed a
\* name: the timer of that change is gone, nothing is in flight, and the store
\* does not hold the typed name.
C13_Witness ==
    /\ ~mounted
    /\ nEdits = 1 /\ personalInfo.name = "Ada"
    /\ sinceChange < DEBOUNCE_MS
    /\ timers = {} /\ cycles = <<>>
    /\ db.pi # personalInfo
====
